---- MODULE Spec2Model ----
(***************************************************************************)
(* Logistic win-probability predictor (predictor.py) and the heuristic     *)
(* adjustors (adjustments.py, experience.py, upset_factors.py).            *)
(*                                                                         *)
(* Numbers.  Python floats are modelled by exact rational arithmetic:      *)
(*   - team stats, coefficients, means, intercepts are integers;           *)
(*   - scales are 0, 1 or 2, so a standardized value and the linear score  *)
(*     z are kept as numerators over the denominator ZDen (halves);        *)
(*   - a probability of the scorer is a fixed-point number of 1/Milli,     *)
(*     rounded to nearest, math.exp being a rounded table;                 *)
(*   - a probability of the adjustors is a numerator over a denominator    *)
(*     the pair shares.                                                    *)
(* Strings that the code normalises (location, round_name) are sequences   *)
(* of one-character strings.                                               *)
(***************************************************************************)
EXTENDS Integers, Sequences, FiniteSets, TLC

VARIABLES teamA, teamB, location, store, out, out2, reads, calls,
          cur, win_probs, steps, last, statDen, round_arg

vars == <<teamA, teamB, location, store, out, out2, reads, calls,
          cur, win_probs, steps, last, statDen, round_arg>>

\* ---------------------------------------------------------------- bounds
\* longest feature_names list of an artifact bundle
MaxFeat == 2
\* largest team stat value
MaxStat == 2
\* predict calls of one process (artifact-store specification)
MaxCalls == 3
\* adjustor calls of one process (adjustor specification)
MaxAdj == 2

\* ---------------------------------------------------------- fixed point
\* denominator of standardized values and of z: lcm of the nonzero scales
ZDen == 2
\* denominator of a scorer probability
Milli == 1000

\* ------------------------------------------------------- Python values
Num(n) == [kind |-> "num", n |-> n]
\* a str that float() parses, such as "2"
NumStr(n) == [kind |-> "numstr", n |-> n]
\* a str that float() rejects, such as "n/a"
Text == [kind |-> "text", n |-> 0]
NoneVal == [kind |-> "none", n |-> 0]

\* float(v) raises ValueError (text) or TypeError (None)
FloatRaises(v) == v.kind \in {"text", "none"}
\* float(v) when it does not raise
FloatOf(v) == v.n

\* ------------------------------------------------------------- strings
UpperToLower ==
  ("A" :> "a") @@ ("B" :> "b") @@ ("C" :> "c") @@ ("D" :> "d") @@ ("E" :> "e") @@
  ("F" :> "f") @@ ("G" :> "g") @@ ("H" :> "h") @@ ("I" :> "i") @@ ("J" :> "j") @@
  ("K" :> "k") @@ ("L" :> "l") @@ ("M" :> "m") @@ ("N" :> "n") @@ ("O" :> "o") @@
  ("P" :> "p") @@ ("Q" :> "q") @@ ("R" :> "r") @@ ("S" :> "s") @@ ("T" :> "t") @@
  ("U" :> "u") @@ ("V" :> "v") @@ ("W" :> "w") @@ ("X" :> "x") @@ ("Y" :> "y") @@
  ("Z" :> "z")
\* str.lower()
Lower(s) == [i \in 1..Len(s) |-> IF s[i] \in DOMAIN UpperToLower THEN UpperToLower[s[i]] ELSE s[i]]
Whitespace == {" ", "\t", "\n"}
RECURSIVE StripLeft(_)
StripLeft(s) == IF s # <<>> /\ Head(s) \in Whitespace THEN StripLeft(Tail(s)) ELSE s
RECURSIVE StripRight(_)
StripRight(s) ==
  IF s # <<>> /\ s[Len(s)] \in Whitespace THEN StripRight(SubSeq(s, 1, Len(s) - 1)) ELSE s
\* str.strip()
Strip(s) == StripRight(StripLeft(s))
\* the value None where a str is expected
NoneStr == <<"None">>

\* ---------------------------------------------------------- predictor.py
\* _safe_get
SafeGet(d, k, default) ==
  LET v == IF k \in DOMAIN d THEN d[k] ELSE Num(default)
  IN  IF FloatRaises(v) THEN default ELSE FloatOf(v)

\* faulty variant of _home_advantage_value: the location is not stripped
HomeAdvantageNoStrip(loc) ==
  LET l == Lower(IF loc = NoneStr THEN <<>> ELSE loc)
  IN  IF l = <<"h","o","m","e">> THEN 1 ELSE IF l = <<"a","w","a","y">> THEN -1 ELSE 0
\* faulty variant of _home_advantage_value: the "away" branch is missing
HomeAdvantageNoAway(loc) ==
  LET l == Lower(Strip(IF loc = NoneStr THEN <<>> ELSE loc))
  IN  IF l = <<"h","o","m","e">> THEN 1 ELSE 0
\* _home_advantage_value
HomeAdvantageValue(loc) ==
  LET l == Lower(Strip(IF loc = NoneStr THEN <<>> ELSE loc))
  IN  IF l = <<"h","o","m","e">> THEN 1 ELSE IF l = <<"a","w","a","y">> THEN -1 ELSE 0

\* the A-minus-B differences of build_features_from_live: derived name -> live key
DiffKey ==
  ("OffRating_diff" :> "AdjO") @@ ("DefRating_diff" :> "AdjD") @@
  ("Off_eFG_diff" :> "eFG_off") @@ ("Off_3P%_diff" :> "ThreeP_off") @@
  ("Off_2P%_diff" :> "TwoP_off") @@ ("Off_FT%_diff" :> "FT_off") @@
  ("Off_3PA%_diff" :> "ThreePA_off") @@ ("Off_TOV%_diff" :> "TOV_off") @@
  ("Off_FTR_diff" :> "FTR_off") @@ ("Off_A%_diff" :> "AST_off") @@
  ("Off_OR%_diff" :> "OR_off") @@
  ("Def_eFG_allowed_diff" :> "eFG_def") @@ ("Def_3P%_allowed_diff" :> "ThreeP_def") @@
  ("Def_2P%_allowed_diff" :> "TwoP_def") @@ ("Def_FT%_allowed_diff" :> "FT_def") @@
  ("Def_3PA%_allowed_diff" :> "ThreePA_def") @@ ("Def_TOV%_diff" :> "TOV_def") @@
  ("Def_DR%_diff" :> "DR_def") @@ ("Def_BLK%_diff" :> "BLK_def") @@
  ("Def_STL%_diff" :> "STL_def") @@
  ("Poss_diff" :> "Tempo")

\* faulty variant of a difference line: B minus A
DerivedDiffFlipped(A, B, key) == SafeGet(B, key, 0) - SafeGet(A, key, 0)
\* one difference line: _safe_get(A, key) - _safe_get(B, key)
DerivedDiff(A, B, key) == SafeGet(A, key, 0) - SafeGet(B, key, 0)

\* the dict f of build_features_from_live
DerivedNamed(A, B, loc) ==
  LET h == HomeAdvantageValue(loc)
      d == [name \in DOMAIN DiffKey |-> DerivedDiff(A, B, DiffKey[name])]
  IN  ("home_advantage" :> h) @@ d @@
      ("home_x_offrat" :> h * d["OffRating_diff"]) @@
      ("home_x_defrat" :> h * d["DefRating_diff"])

\* faulty variant of the projection loop: an unmatched name appends nothing
ProjectSkipUnknown(f, feature_names) ==
  LET known == SelectSeq(feature_names, LAMBDA n : n \in DOMAIN f)
  IN  [i \in 1..Len(known) |-> f[known[i]]]
\* the projection loop of build_features_from_live: the vector x
Project(f, feature_names) ==
  [i \in 1..Len(feature_names) |->
     IF feature_names[i] \in DOMAIN f THEN f[feature_names[i]] ELSE 0]

\* math.exp(a) for a <= 0, a in 1/ZDen, result in 1/Milli rounded to nearest
ExpTable == <<607, 368, 223, 135, 82, 50, 30, 18, 11, 7, 4, 2, 2, 1, 1>>
ExpMilli(a) ==
  IF a = 0 THEN Milli
  ELSE IF -a <= Len(ExpTable) THEN ExpTable[-a] ELSE 0
\* n / d rounded to nearest
RoundDiv(n, d) == (2 * n + d) \div (2 * d)
\* _sigmoid, z in 1/ZDen, result in 1/Milli
Sigmoid(z) ==
  IF z >= 0
  THEN LET ez == ExpMilli(-z) IN RoundDiv(Milli * Milli, Milli + ez)
  ELSE LET ez == ExpMilli(z) IN RoundDiv(Milli * ez, Milli + ez)

\* the order in which load_logistic_artifacts opens the four documents
DocOrder == <<"meta", "coefs", "means", "scales">>
\* _load_json raises: the file is missing, or is not JSON
LoadJsonRaises(doc) == doc.state # "ok"
\* faulty variant: the bundle is read by the first call only
DocsOpenedOncePerProcess(st) ==
  IF calls > 0 THEN 0
  ELSE LET bad == {i \in 1..Len(DocOrder) : LoadJsonRaises(st[DocOrder[i]])}
       IN  IF bad = {} THEN Len(DocOrder) ELSE CHOOSE i \in bad : \A j \in bad : i <= j
\* the documents load_logistic_artifacts opens before it returns or raises
DocsOpened(st) ==
  LET bad == {i \in 1..Len(DocOrder) : LoadJsonRaises(st[DocOrder[i]])}
  IN  IF bad = {} THEN Len(DocOrder) ELSE CHOOSE i \in bad : \A j \in bad : i <= j
\* table.get(f, default)
TabGet(doc, f, default) == IF f \in DOMAIN doc.tab THEN doc.tab[f] ELSE default

\* faulty variant of load_logistic_artifacts: an unreadable table counts as empty
LoadDefaultsUnreadableTables(st) ==
  LET raised  == LoadJsonRaises(st.meta) \/ ~st.meta.has_names
      names   == IF raised THEN <<>> ELSE st.meta.feature_names
  IN  [raised        |-> raised,
       feature_names |-> names,
       intercept     |-> IF ~raised /\ st.meta.has_intercept THEN st.meta.intercept ELSE 0,
       coef_vec      |-> [i \in 1..Len(names) |->
                           IF LoadJsonRaises(st.coefs) THEN 0 ELSE TabGet(st.coefs, names[i], 0)],
       mean_vec      |-> [i \in 1..Len(names) |->
                           IF LoadJsonRaises(st.means) THEN 0 ELSE TabGet(st.means, names[i], 0)],
       scale_vec     |-> [i \in 1..Len(names) |->
                           IF LoadJsonRaises(st.scales) THEN 1 ELSE TabGet(st.scales, names[i], 1)]]
\* load_logistic_artifacts
LoadLogisticArtifacts(st) ==
  LET allRead == \A i \in 1..Len(DocOrder) : ~LoadJsonRaises(st[DocOrder[i]])
      \* meta["feature_names"] raises KeyError
      raised  == ~allRead \/ ~st.meta.has_names
      names   == IF raised THEN <<>> ELSE st.meta.feature_names
  IN  [raised        |-> raised,
       feature_names |-> names,
       intercept     |-> IF ~raised /\ st.meta.has_intercept THEN st.meta.intercept ELSE 0,
       coef_vec      |-> [i \in 1..Len(names) |-> TabGet(st.coefs, names[i], 0)],
       mean_vec      |-> [i \in 1..Len(names) |-> TabGet(st.means, names[i], 0)],
       scale_vec     |-> [i \in 1..Len(names) |-> TabGet(st.scales, names[i], 1)]]

\* faulty variant: a raw value of 0 is standardized to 0
StandardizeZeroRaw(v, m, s) == IF s = 0 \/ v = 0 THEN 0 ELSE (v - m) * (ZDen \div s)
\* faulty variant: a scale of 0 is taken as 1
StandardizeZeroScaleAsOne(v, m, s) == (v - m) * (IF s = 0 THEN ZDen ELSE ZDen \div s)
\* the standardization branch of predict_logistic_from_artifacts, result in 1/ZDen
Standardize(v, m, s) == IF s = 0 THEN 0 ELSE (v - m) * (ZDen \div s)

RECURSIVE SumSeq(_)
SumSeq(s) == IF s = <<>> THEN 0 ELSE Head(s) + SumSeq(Tail(s))

\* the linear model: z in 1/ZDen
LinearScore(intercept, coef_vec, x_std) ==
  ZDen * intercept + SumSeq([i \in 1..Len(x_std) |-> coef_vec[i] * x_std[i]])

\* what a call that raised, or no call yet, leaves in a result variable
NoOut(status) ==
  [status |-> status, feature_names |-> <<>>, intercept |-> 0, coef_vec |-> <<>>,
   mean_vec |-> <<>>, scale_vec |-> <<>>, x_raw |-> <<>>, x_std |-> <<>>,
   z |-> 0, pA |-> 0, pB |-> 0, used |-> <<>>]

\* predict_logistic_from_artifacts: (pA, pB, used), with the intermediate values
PredictLogisticFromArtifacts(A, B, loc, st) ==
  LET art == LoadLogisticArtifacts(st)
  IN  IF art.raised THEN NoOut("raised")
      ELSE
      LET f     == DerivedNamed(A, B, loc)
          x_raw == Project(f, art.feature_names)
          x_std == [i \in 1..Len(x_raw) |->
                      Standardize(x_raw[i], art.mean_vec[i], art.scale_vec[i])]
          z     == LinearScore(art.intercept, art.coef_vec, x_std)
          pA    == Sigmoid(z)
      IN  [status |-> "ok", feature_names |-> art.feature_names,
           intercept |-> art.intercept, coef_vec |-> art.coef_vec,
           mean_vec |-> art.mean_vec, scale_vec |-> art.scale_vec,
           x_raw |-> x_raw, x_std |-> x_std, z |-> z,
           pA |-> pA, pB |-> Milli - pA, used |-> f]

\* ------------------------------------------------------------ adjustors
\* A probability pair is [a, b, den]: the floats a/den and b/den.
\* A probability container is [p, den]: the dict {name: p[name]/den}.
RECURSIVE Gcd(_, _)
Gcd(x, y) == IF y = 0 THEN x ELSE Gcd(y, x % y)
\* the same two floats over the least common denominator
Reduce(a, b, den) ==
  LET g == Gcd(Gcd(a, b), den)
  IN  IF g = 0 THEN [a |-> a, b |-> b, den |-> den]
      ELSE [a |-> a \div g, b |-> b \div g, den |-> den \div g]
Abs(x) == IF x < 0 THEN -x ELSE x
\* dict.get(k, default)
Get(d, k, default) == IF k \in DOMAIN d THEN d[k] ELSE default

\* experience.py: Experience is counted in 1/ExpDen years
ExpDen == 2
EXPERIENCE_THRESHOLD == 1
\* EXPERIENCE_BONUS = 0.02 = 1 / BonusDen
BonusDen == 50

\* faulty variant of apply_experience_bonus: the pair is not divided by its total
ApplyExperienceBonusNoRenormalize(tA, tB, pr) ==
  LET expA == Get(tA, "Experience", 0)
      expB == Get(tB, "Experience", 0)
  IN  IF Abs(expA - expB) >= EXPERIENCE_THRESHOLD * ExpDen
      THEN IF expA > expB
           THEN Reduce(pr.a * BonusDen + pr.den, pr.b * BonusDen, pr.den * BonusDen)
           ELSE Reduce(pr.a * BonusDen, pr.b * BonusDen + pr.den, pr.den * BonusDen)
      ELSE pr
\* apply_experience_bonus: the pair it returns
ApplyExperienceBonus(tA, tB, pr) ==
  LET expA == Get(tA, "Experience", 0)
      expB == Get(tB, "Experience", 0)
  IN  IF Abs(expA - expB) >= EXPERIENCE_THRESHOLD * ExpDen
      THEN LET \* win_prob_X += EXPERIENCE_BONUS, over the denominator den * BonusDen
               a2 == IF expA > expB THEN pr.a * BonusDen + pr.den ELSE pr.a * BonusDen
               b2 == IF expA > expB THEN pr.b * BonusDen ELSE pr.b * BonusDen + pr.den
               \* total = win_prob_A + win_prob_B, over the same denominator
               total == a2 + b2
           IN  \* win_prob_X /= total
               Reduce(a2, b2, total)
      ELSE pr

\* adjustments.py: HOME_COURT_ADV = 0.014 = HcNum / HcDen
HcNum == 7
HcDen == 500

\* faulty variant of apply_home_court: the location is compared as given, and
\* only with "home"
ApplyHomeCourtCaseSensitive(tA, tB, den, loc) ==
  IF loc = <<"h","o","m","e">>
  THEN [A |-> [tA EXCEPT !["AdjO"] = @ * (HcDen + HcNum), !["AdjD"] = @ * (HcDen - HcNum)],
        B |-> [tB EXCEPT !["AdjO"] = @ * (HcDen - HcNum), !["AdjD"] = @ * (HcDen + HcNum)],
        den |-> den * HcDen]
  ELSE [A |-> tA, B |-> tB, den |-> den]
\* apply_home_court: the two stat dicts after the call; AdjO and AdjD are
\* numerators over den, which all four share
ApplyHomeCourt(tA, tB, den, loc) ==
  LET l == Lower(loc)
  IN  IF l = <<"h","o","m","e">>
      THEN [A |-> [tA EXCEPT !["AdjO"] = @ * (HcDen + HcNum), !["AdjD"] = @ * (HcDen - HcNum)],
            B |-> [tB EXCEPT !["AdjO"] = @ * (HcDen - HcNum), !["AdjD"] = @ * (HcDen + HcNum)],
            den |-> den * HcDen]
      ELSE IF l = <<"a","w","a","y">>
      THEN [A |-> [tA EXCEPT !["AdjO"] = @ * (HcDen - HcNum), !["AdjD"] = @ * (HcDen + HcNum)],
            B |-> [tB EXCEPT !["AdjO"] = @ * (HcDen + HcNum), !["AdjD"] = @ * (HcDen - HcNum)],
            den |-> den * HcDen]
      ELSE [A |-> tA, B |-> tB, den |-> den]

\* upset_factors.py: HISTORICAL_UPSETS, rates in 1/RateDen
RateDen == 100
HISTORICAL_UPSETS == (<<12, 5>> :> 35) @@ (<<11, 6>> :> 40) @@ (<<10, 7>> :> 39)
TournamentRounds ==
  { <<"r","o","u","n","d","1">>, <<"r","o","u","n","d","2">>,
    <<"s","w","e","e","t","1","6">>, <<"e","l","i","t","e","8">>,
    <<"f","i","n","a","l","4">>, <<"c","h","a","m","p","i","o","n","s","h","i","p">> }

\* the dict {name: value / den} over its least denominator
ReduceDict(p, un, fn, den) ==
  LET r == Reduce(p[un], p[fn], den)
  IN  [p |-> (un :> r.a) @@ (fn :> r.b) @@ p, den |-> r.den]

\* adjust_for_upset_trends: the container after the call (it is also returned)
AdjustForUpsetTrends(tA, tB, wp, round_name) ==
  LET seedA == Get(tA, "Seed", 0)
      seedB == Get(tB, "Seed", 0)
  IN  IF seedA # 0 /\ seedB # 0 /\ Lower(round_name) \in TournamentRounds
      THEN LET aUnder  == seedA > seedB
               matchup == IF aUnder THEN <<seedA, seedB>> ELSE <<seedB, seedA>>
               un      == IF aUnder THEN tA["name"] ELSE tB["name"]
               fn      == IF aUnder THEN tB["name"] ELSE tA["name"]
           IN  IF matchup \in DOMAIN HISTORICAL_UPSETS
               THEN LET rate == HISTORICAL_UPSETS[matchup]
                        old  == Get(wp.p, un, 0)
                    IN  \* max(win_probs.get(underdog_name, 0), upset_rate)
                        IF old * RateDen >= rate * wp.den
                        THEN ReduceDict((un :> old) @@ (fn :> wp.den - old) @@ wp.p,
                                        un, fn, wp.den)
                        ELSE ReduceDict((un :> rate) @@ (fn :> RateDen - rate) @@ wp.p,
                                        un, fn, RateDen)
               ELSE wp
      ELSE wp

\* ------------------------------------------------ the calls of a process
\* one call `out = predict_logistic_from_artifacts(A, B, loc)` against the store:
\* the documents it opens are counted, the result (or the fact that it raised) kept
PredictCall(res, A, B, loc) ==
  /\ res = PredictLogisticFromArtifacts(A, B, loc, store)
  /\ reads' = [i \in 1..Len(DocOrder) |->
                 reads[i] + (IF i <= DocsOpened(store) THEN 1 ELSE 0)]
  /\ calls' = calls + 1

\* ------------------------------------------------------------ input sets
Range(f) == {f[x] : x \in DOMAIN f}
SeqsUpTo(S, n) == UNION {[1..k -> S] : k \in 0..n}
\* every dict whose keys are among `keys`, with values among `vals`
Dicts(keys, vals) == UNION {[ks -> vals] : ks \in SUBSET keys}
OkDoc(tab) == [state |-> "ok", tab |-> tab]
MetaDoc(state, has_names, names, has_intercept, intercept) ==
  [state |-> state, has_names |-> has_names, feature_names |-> names,
   has_intercept |-> has_intercept, intercept |-> intercept]
NoReads == [i \in 1..Len(DocOrder) |-> 0]

\* ---- feature builder inputs
BuildStatValues == {Num(n) : n \in 0..MaxStat} \cup {NumStr(1), Text, NoneVal}
BuildTeams ==
  {a @@ t : a \in Dicts({"AdjO"}, BuildStatValues), t \in Dicts({"Tempo"}, {Num(1)})}
BuildLocations ==
  { <<"h","o","m","e">>, <<"H","O","M","E">>, <<" ","H","o","m","e"," ">>,
    <<"a","w","a","y">>, <<"A","w","a","y","\n">>, <<"n","e","u","t","r","a","l">>,
    <<>>, <<"c","o","u","r","t">>, NoneStr }
BuildPool == {"home_advantage", "OffRating_diff", "Poss_diff", "home_x_offrat", "Seed_diff"}
BuildStore(names) ==
  [meta   |-> MetaDoc("ok", TRUE, names, TRUE, 0),
   coefs  |-> OkDoc([n \in BuildPool |-> 1]),
   means  |-> OkDoc([n \in BuildPool |-> IF n = "Seed_diff" THEN 1 ELSE 0]),
   scales |-> OkDoc([n \in BuildPool |-> IF n = "Poss_diff" THEN 2 ELSE 1])]
Neutral == <<"n","e","u","t","r","a","l">>

BuildInit ==
  /\ teamA \in BuildTeams
  /\ teamB \in BuildTeams
  /\ location \in BuildLocations
  /\ \E names \in SeqsUpTo(BuildPool, MaxFeat) : store = BuildStore(names)
  /\ out = NoOut("none")
  /\ out2 = NoOut("none")
  /\ reads = NoReads
  /\ calls = 0
  /\ cur = <<>>
  /\ win_probs = <<>>
  /\ steps = 0
  /\ statDen = 1
  /\ round_arg = <<>>
  /\ last = "none"

\* pA, pB, used = predict_logistic_from_artifacts(teamA, teamB, location)
Predict ==
  /\ out.status = "none"
  /\ PredictCall(out', teamA, teamB, location)
  /\ UNCHANGED <<teamA, teamB, location, store, out2, cur, win_probs, steps, last, statDen, round_arg>>

\* the same teams at a neutral site
PredictNeutral ==
  /\ out.status # "none"
  /\ out2.status = "none"
  /\ PredictCall(out2', teamA, teamB, Neutral)
  /\ last' = "neutral"
  /\ UNCHANGED <<teamA, teamB, location, store, out, cur, win_probs, steps, statDen, round_arg>>

BuildNext == Predict \/ PredictNeutral
SpecBuild == BuildInit /\ [][BuildNext]_vars

\* ---- scorer inputs
ScoreTeamsA == Dicts({"AdjO"}, {Num(n) : n \in 0..MaxStat})
ScoreTeamsB == Dicts({"AdjO"}, {Num(1)})
Home == <<"h","o","m","e">>
Away == <<"a","w","a","y">>
ScoreLocations == {Home, Away, Neutral}
ScorePool == {"home_advantage", "OffRating_diff", "home_x_offrat", "Unknown_feat"}
\* the entries one feature name has in the three tables; Absent: in none of them
Absent == [coef |-> 0, mean |-> 0, scale |-> 1, present |-> FALSE]
ParamSet ==
  { [coef |-> 1,  mean |-> 0, scale |-> 1, present |-> TRUE],
    [coef |-> -1, mean |-> 1, scale |-> 2, present |-> TRUE],
    [coef |-> 2,  mean |-> 1, scale |-> 0, present |-> TRUE],
    Absent }
ScoreStore(names, p, intercept) ==
  LET ks == {n \in DOMAIN p : p[n].present}
  IN  [meta   |-> MetaDoc("ok", TRUE, names, TRUE, intercept),
       coefs  |-> OkDoc([n \in ks |-> p[n].coef]),
       means  |-> OkDoc([n \in ks |-> p[n].mean]),
       scales |-> OkDoc([n \in ks |-> p[n].scale])]
Intercepts == {0, 1}
CoefValues == {-1, 1, 2}
MeanValues == {0, 1}

ScoreInit ==
  /\ teamA \in ScoreTeamsA
  /\ teamB \in ScoreTeamsB
  /\ location \in ScoreLocations
  /\ \E names \in SeqsUpTo(ScorePool, MaxFeat) :
       \E p \in [Range(names) -> ParamSet] :
         \E ic \in Intercepts : store = ScoreStore(names, p, ic)
  /\ out = NoOut("none")
  /\ out2 = NoOut("none")
  /\ reads = NoReads
  /\ calls = 0
  /\ cur = <<>>
  /\ win_probs = <<>>
  /\ steps = 0
  /\ statDen = 1
  /\ round_arg = <<>>
  /\ last = "none"

\* the caller exchanges home and away when it exchanges the teams
SwapLocation(loc) == IF loc = Home THEN Away ELSE IF loc = Away THEN Home ELSE loc

\* the same game seen from the other team
PredictSwapped ==
  /\ out.status # "none"
  /\ out2.status = "none"
  /\ PredictCall(out2', teamB, teamA, SwapLocation(location))
  /\ last' = "swapped"
  /\ UNCHANGED <<teamA, teamB, location, store, out, cur, win_probs, steps, statDen, round_arg>>

\* a second game that differs from the first in one input: a stat of team A,
\* the location, or one entry of the coefficient or mean table
PredictVaried ==
  /\ out.status # "none"
  /\ out2.status = "none"
  /\ \/ \E v \in 0..MaxStat :
          /\ teamA' = ("AdjO" :> Num(v)) @@ teamA
          /\ teamA' # teamA
          /\ UNCHANGED <<location, store>>
     \/ \E l \in ScoreLocations \ {location} :
          /\ location' = l
          /\ UNCHANGED <<teamA, store>>
     \/ \E n \in DOMAIN store.coefs.tab : \E c \in CoefValues \ {store.coefs.tab[n]} :
          /\ store' = [store EXCEPT !.coefs.tab[n] = c]
          /\ UNCHANGED <<teamA, location>>
     \/ \E n \in DOMAIN store.means.tab : \E m \in MeanValues \ {store.means.tab[n]} :
          /\ store' = [store EXCEPT !.means.tab[n] = m]
          /\ UNCHANGED <<teamA, location>>
  /\ out2' = PredictLogisticFromArtifacts(teamA', teamB, location', store')
  /\ reads' = [i \in 1..Len(DocOrder) |->
                 reads[i] + (IF i <= DocsOpened(store') THEN 1 ELSE 0)]
  /\ calls' = calls + 1
  /\ last' = "varied"
  /\ UNCHANGED <<teamB, out, cur, win_probs, steps, statDen, round_arg>>

ScoreNext == Predict \/ PredictSwapped \/ PredictVaried
SpecScore == ScoreInit /\ [][ScoreNext]_vars

\* ---- artifact store
DocStates == {"ok", "missing", "unparsable"}
LoadNames == <<"home_advantage", "OffRating_diff">>
LoadTab(v) == [n \in Range(LoadNames) |-> v]
LoadStores ==
  { [meta   |-> MetaDoc(ms, hn, LoadNames, hi, 1),
     coefs  |-> [state |-> cs, tab |-> LoadTab(1)],
     means  |-> [state |-> mns, tab |-> LoadTab(0)],
     scales |-> [state |-> ss, tab |-> LoadTab(1)]] :
    ms \in DocStates, hn \in BOOLEAN, hi \in BOOLEAN,
    cs \in DocStates, mns \in {"ok", "missing"}, ss \in {"ok", "unparsable"} }

\* what the latest call found in the store
Found(st) ==
  LET docs_ok == \A i \in 1..Len(DocOrder) : st[DocOrder[i]].state = "ok"
  IN  [docs_ok       |-> docs_ok,
       has_names     |-> st.meta.state = "ok" /\ st.meta.has_names,
       has_intercept |-> st.meta.state = "ok" /\ st.meta.has_intercept]

LoadInit ==
  /\ teamA = ("AdjO" :> Num(2))
  /\ teamB = ("AdjO" :> Num(1))
  /\ location = Home
  /\ store \in LoadStores
  /\ out = NoOut("none")
  /\ out2 = NoOut("none")
  /\ reads = NoReads
  /\ calls = 0
  /\ cur = <<>>
  /\ win_probs = <<>>
  /\ steps = 0
  /\ statDen = 1
  /\ round_arg = <<>>
  /\ last = Found(store)

\* one more prediction of the process
PredictAgain ==
  /\ calls < MaxCalls
  /\ PredictCall(out', teamA, teamB, location)
  /\ last' = Found(store)
  /\ UNCHANGED <<teamA, teamB, location, store, out2, cur, win_probs, steps, statDen, round_arg>>

\* the artifact directory changes between two predictions: a document is
\* removed, damaged or restored, or the metadata gains or loses an entry
StoreChange ==
  /\ \E st \in LoadStores :
       /\ st # store
       /\ Cardinality({d \in DOMAIN st : st[d] # store[d]}) = 1
       /\ store' = st
  /\ UNCHANGED <<teamA, teamB, location, out, out2, reads, calls, cur, win_probs,
                 steps, last, statDen, round_arg>>

LoadNext == PredictAgain \/ StoreChange
SpecLoad == LoadInit /\ [][LoadNext]_vars

\* ---- adjustor inputs
AdjExperience == {1, 3}
AdjSeeds == {5, 6, 11, 12}
AdjTeams(name, adjO, adjD) ==
  { ("name" :> name) @@ ("AdjO" :> adjO) @@ ("AdjD" :> adjD) @@ e @@ sd :
      e \in UNION {[ks -> AdjExperience] : ks \in SUBSET {"Experience"}},
      sd \in UNION {[ks -> AdjSeeds] : ks \in SUBSET {"Seed"}} }
\* the model output pairs (pA, 1 - pA) the adjustors start from
ModelPairs == {[a |-> a, b |-> 4 - a, den |-> 4] : a \in 0..4}
AdjLocations == {<<"H","O","M","E">>, Away, Neutral}
AdjRounds == {<<"R","o","u","n","d","1">>, <<"e","l","i","t","e","8">>,
              <<"r","e","g","u","l","a","r">>}
\* the caller's dict {teamA["name"]: pA, teamB["name"]: pB}
Container(tA, tB, pr) ==
  [p |-> (tA["name"] :> pr.a) @@ (tB["name"] :> pr.b), den |-> pr.den]

AdjInit ==
  /\ teamA \in AdjTeams("A", 2, 1)
  /\ teamB \in AdjTeams("B", 1, 2)
  /\ \E pr \in ModelPairs :
       /\ cur = Reduce(pr.a, pr.b, pr.den)
       /\ win_probs = Container(teamA, teamB, cur)
  /\ location = Neutral
  /\ store = <<>>
  /\ out = NoOut("none")
  /\ out2 = NoOut("none")
  /\ reads = NoReads
  /\ calls = 0
  /\ steps = 0
  /\ statDen = 1
  /\ round_arg = <<>>
  /\ last = "none"

\* apply_home_court(teamA, teamB, loc): the two dicts are changed in place
HomeCourtStep ==
  /\ steps < MaxAdj
  /\ \E loc \in AdjLocations :
       LET r == ApplyHomeCourt(teamA, teamB, statDen, loc)
       IN  /\ teamA' = r.A
           /\ teamB' = r.B
           /\ statDen' = r.den
           /\ location' = loc
  /\ steps' = steps + 1
  /\ last' = "home_court"
  /\ UNCHANGED <<store, out, out2, reads, calls, cur, win_probs, round_arg>>

\* pA, pB = apply_experience_bonus(teamA, teamB, pA, pB)
ExperienceStep ==
  /\ steps < MaxAdj
  /\ cur' = ApplyExperienceBonus(teamA, teamB, cur)
  /\ steps' = steps + 1
  /\ last' = "experience"
  /\ UNCHANGED <<teamA, teamB, location, store, out, out2, reads, calls, win_probs,
                 statDen, round_arg>>

\* win_probs = {nameA: pA, nameB: pB}; adjust_for_upset_trends(teamA, teamB,
\* win_probs, round_name) changes that dict in place; pA, pB are read back
UpsetStep ==
  /\ steps < MaxAdj
  /\ round_arg' \in AdjRounds
  /\ win_probs' = AdjustForUpsetTrends(teamA, teamB, Container(teamA, teamB, cur),
                                       round_arg')
  /\ cur' = [a |-> win_probs'.p[teamA["name"]], b |-> win_probs'.p[teamB["name"]],
              den |-> win_probs'.den]
  /\ steps' = steps + 1
  /\ last' = "upset"
  /\ UNCHANGED <<teamA, teamB, location, store, out, out2, reads, calls, statDen>>

AdjNext == HomeCourtStep \/ ExperienceStep \/ UpsetStep
SpecAdjust == AdjInit /\ [][AdjNext]_vars

\* ------------------------------------------------------------- the claims
Idx(o) == 1..Len(o.feature_names)
Interactions == {"home_x_offrat", "home_x_defrat"}

\* C1 as stated: for every bundle, the swapped call's probability_A is the
\* original call's probability_B, its score z the negation of the original z.
C1_SwapNegatesEveryBundle ==
  (last = "swapped" /\ out.status = "ok" /\ out2.status = "ok")
    => (out2.pA = out.pB /\ out2.z = -out.z)

\* the bundles whose score is antisymmetric: intercept 0, and every feature that
\* can move the score (coefficient and scale nonzero) has mean 0 and is not an
\* interaction term
Antisymmetric(o) ==
  /\ o.intercept = 0
  /\ \A i \in Idx(o) :
        \/ o.coef_vec[i] = 0
        \/ o.scale_vec[i] = 0
        \/ (o.mean_vec[i] = 0 /\ o.feature_names[i] \notin Interactions)

\* C1 amended: for every bundle with intercept 0 whose score-moving features have
\* mean 0 and are no interaction terms, swapping the teams and exchanging
\* home/away negates z and gives probability_A(swapped) = probability_B(original).
C1_SwapNegatesAntisymmetric ==
  (last = "swapped" /\ out.status = "ok" /\ out2.status = "ok" /\ Antisymmetric(out))
    => (out2.pA = out.pB /\ out2.pB = out.pA /\ out2.z = -out.z)

C1_Witness ==
  /\ last = "swapped" /\ out.status = "ok" /\ out2.status = "ok"
  /\ Antisymmetric(out)
  /\ out.feature_names = <<"home_advantage", "OffRating_diff">>
  /\ out.coef_vec = <<1, 1>>
  /\ location = Away
  /\ out.z < 0 /\ out2.z = -out.z /\ out2.pA > out.pA

\* the features in which two predictions differ
Differs(o1, o2, i) ==
  \/ o1.x_raw[i] # o2.x_raw[i]
  \/ o1.coef_vec[i] # o2.coef_vec[i]
  \/ o1.mean_vec[i] # o2.mean_vec[i]

\* two predictions over the same bundle layout that differ only in features of
\* scale 0
DifferOnlyAtScaleZero(o1, o2) ==
  /\ o1.status = "ok" /\ o2.status = "ok"
  /\ o1.feature_names = o2.feature_names
  /\ o1.intercept = o2.intercept
  /\ o1.scale_vec = o2.scale_vec
  /\ \A i \in Idx(o1) : Differs(o1, o2, i) => o1.scale_vec[i] = 0

\* C3: two predictions that differ only in the raw value, the coefficient or the
\* mean of features whose scale is 0 have the same score z and the same
\* probabilities.
C3_ScaleZeroFeatureIgnored ==
  (last = "varied" /\ DifferOnlyAtScaleZero(out, out2))
    => (out2.z = out.z /\ out2.pA = out.pA /\ out2.pB = out.pB)

C3_Witness ==
  /\ last = "varied" /\ DifferOnlyAtScaleZero(out, out2)
  /\ \E i \in Idx(out) :
        /\ out.x_raw[i] # out2.x_raw[i]
        /\ out.coef_vec[i] # 0
        /\ out.x_raw[i] # out.mean_vec[i]
  /\ out.z # 0

\* C4: a name of feature_names outside the derived set has raw value 0 and is
\* standardized like any other: with scale # 0 its standardized value is
\* (0 - mean) / scale, and that times its coefficient is its share of z.
C4_UnknownFeatureStandardized ==
  out.status = "ok" =>
    /\ \A i \in Idx(out) :
          out.feature_names[i] \notin DOMAIN out.used =>
            /\ out.x_raw[i] = 0
            /\ out.scale_vec[i] # 0 =>
                  out.x_std[i] * out.scale_vec[i] = (0 - out.mean_vec[i]) * ZDen
    /\ out.z = ZDen * out.intercept
                 + SumSeq([i \in Idx(out) |-> out.coef_vec[i] * out.x_std[i]])

C4_Witness ==
  /\ out.status = "ok"
  /\ out.feature_names = <<"Unknown_feat">>
  /\ out.mean_vec = <<1>> /\ out.scale_vec = <<2>> /\ out.coef_vec = <<-1>>
  /\ out.intercept = 0
  /\ out.x_std = <<-1>>
  /\ out.z = 1

\* C2: the vector has one entry per name of feature_names, in that order: the
\* derived value of the name when the derived set has it, 0 otherwise.
C2_VectorFollowsFeatureNames ==
  out.status = "ok" =>
    /\ out.feature_names = store.meta.feature_names
    /\ Len(out.x_raw) = Len(store.meta.feature_names)
    /\ \A i \in 1..Len(store.meta.feature_names) :
          LET name == store.meta.feature_names[i]
          IN  out.x_raw[i] = IF name \in DOMAIN out.used THEN out.used[name] ELSE 0

C2_Witness ==
  /\ out.status = "ok"
  /\ store.meta.feature_names = <<"Seed_diff", "OffRating_diff">>
  /\ out.used["OffRating_diff"] = 2
  /\ out.used["Poss_diff"] = 1
  /\ out.x_raw = <<0, 2>>

\* get(d, key, 0.0) of the claim: the number the key holds, 0 when the key is
\* absent or holds no number
NumberOr0(d, key) ==
  IF key \in DOMAIN d /\ d[key].kind \in {"num", "numstr"} THEN d[key].n ELSE 0

\* C5: whatever catalogue keys are absent or hold no number, the call raises
\* nothing and every derived difference is get(A, key, 0) - get(B, key, 0).
C5_MissingStatsCountAsZero ==
  out.status # "none" =>
    /\ out.status = "ok"
    /\ \A name \in DOMAIN DiffKey :
          out.used[name] = NumberOr0(teamA, DiffKey[name]) - NumberOr0(teamB, DiffKey[name])

C5_Witness ==
  /\ out.status = "ok"
  /\ "AdjO" \in DOMAIN teamA /\ teamA["AdjO"] = Text
  /\ "AdjO" \in DOMAIN teamB /\ teamB["AdjO"] = Num(2)
  /\ "Tempo" \notin DOMAIN teamA
  /\ "Tempo" \in DOMAIN teamB
  /\ out.used["OffRating_diff"] = -2
  /\ out.used["Poss_diff"] = -1

\* the location as the call sees it: None reads as the empty string
LocText(loc) == IF loc = NoneStr THEN <<>> ELSE loc

\* C6 as stated: home_advantage is +1 exactly when the location equals "home"
\* ignoring letter case, -1 exactly when it equals "away" ignoring letter case,
\* and 0 for every other string.
C6_HomeAdvantageCaseOnly ==
  out.status = "ok" =>
    out.used["home_advantage"] =
      IF Lower(LocText(location)) = Home THEN 1
      ELSE IF Lower(LocText(location)) = Away THEN -1 ELSE 0

\* C6 amended: home_advantage is +1 exactly when the location equals "home"
\* ignoring letter case and surrounding whitespace, -1 exactly when it so equals
\* "away", 0 for every other string; every location of home_advantage 0 yields
\* the prediction output of "neutral".
C6_HomeAdvantageCaseAndWhitespace ==
  /\ out.status = "ok" =>
        out.used["home_advantage"] =
          IF Lower(Strip(LocText(location))) = Home THEN 1
          ELSE IF Lower(Strip(LocText(location))) = Away THEN -1 ELSE 0
  /\ (last = "neutral" /\ out.status = "ok"
        /\ Lower(Strip(LocText(location))) \notin {Home, Away})
        => (out2.status = "ok" /\ out2.pA = out.pA /\ out2.pB = out.pB
            /\ out2.used = out.used /\ out2.z = out.z)

C6_Witness ==
  /\ last = "neutral" /\ out.status = "ok" /\ out2.status = "ok"
  /\ location = <<"c","o","u","r","t">>
  /\ out.used["home_advantage"] = 0
  /\ out.used["OffRating_diff"] = 2
  /\ out.feature_names = <<"home_advantage", "OffRating_diff">>
  /\ out.z = 4
  /\ out2.z = out.z /\ out2.pA = out.pA

\* C9 as stated: a prediction is produced only from a bundle whose four documents
\* were read and whose metadata holds feature_names and intercept.
C9_NoPredictionFromIncompleteBundle ==
  (calls > 0 /\ out.status = "ok")
    => (last.docs_ok /\ last.has_names /\ last.has_intercept)

\* C9 amended: the call raises, and returns no probability, exactly when one of
\* the four documents is missing or unparsable or the metadata lacks
\* feature_names; a metadata without intercept is loaded with intercept 0.0 and a
\* prediction is produced.
C9_RaisesUnlessDocumentsAndNames ==
  calls > 0 =>
    /\ out.status = "ok" <=> (last.docs_ok /\ last.has_names)
    /\ out.status # "ok" => out = NoOut("raised")
    /\ (out.status = "ok" /\ ~last.has_intercept) => out.intercept = 0
    /\ (out.status = "ok" /\ last.has_intercept) => out.intercept = 1

C9_Witness ==
  /\ calls > 1
  /\ out.status = "ok"
  /\ ~last.has_intercept
  /\ out.intercept = 0
  /\ out.pA > 0

C7_AdjustedPairSumsToOne ==
  /\ cur.den > 0
  /\ cur.a + cur.b = cur.den
  /\ 0 <= cur.a /\ cur.a <= cur.den
  /\ 0 <= cur.b /\ cur.b <= cur.den
  /\ win_probs.den > 0
  /\ win_probs.p[teamA["name"]] + win_probs.p[teamB["name"]] = win_probs.den

C7_Witness ==
  /\ steps = 2
  /\ last = "experience"
  /\ win_probs = Container(teamA, teamB, [a |-> 13, b |-> 7, den |-> 20])
  /\ Get(teamA, "Experience", 0) > Get(teamB, "Experience", 0)
  /\ cur # [a |-> 13, b |-> 7, den |-> 20]
  /\ cur.a * 20 > 13 * cur.den

\* C8 as stated: a call of any adjustor leaves the team stat mappings and the
\* probability container passed to it unchanged.
C8_AdjustorsChangeNoArgument ==
  [][steps' = steps + 1 =>
       /\ teamA' = teamA
       /\ teamB' = teamB
       /\ last' = "upset" => win_probs' = Container(teamA, teamB, cur)]_vars

\* adjust_for_upset_trends applies a historical rate
UpsetApplies(tA, tB, wp) ==
  LET seedA == Get(tA, "Seed", 0)
      seedB == Get(tB, "Seed", 0)
      m     == IF seedA > seedB THEN <<seedA, seedB>> ELSE <<seedB, seedA>>
      un    == IF seedA > seedB THEN tA["name"] ELSE tB["name"]
  IN  /\ m \in DOMAIN HISTORICAL_UPSETS
      /\ wp.p[un] * RateDen < HISTORICAL_UPSETS[m] * wp.den

\* C8 amended: apply_experience_bonus changes none of its arguments;
\* apply_home_court multiplies AdjO and AdjD of both team mappings in place by
\* 1 + HOME_COURT_ADV or 1 - HOME_COURT_ADV exactly when the location is "home"
\* or "away" ignoring letter case, and changes nothing else; adjust_for_upset_trends leaves the team mappings unchanged and
\* overwrites the entries of the container passed to it exactly when the round is
\* a tournament round and the seeds are a historical matchup whose rate exceeds
\* the underdog's probability.
C8_AdjustorsChangeOnlyTheirTargets ==
  [][steps' = steps + 1 =>
       /\ last' = "experience" =>
             (teamA' = teamA /\ teamB' = teamB /\ win_probs' = win_probs)
       /\ last' = "upset" =>
             /\ teamA' = teamA /\ teamB' = teamB
             /\ win_probs' # Container(teamA, teamB, cur)
                  <=> /\ UpsetApplies(teamA, teamB, Container(teamA, teamB, cur))
                      /\ Lower(round_arg') \in TournamentRounds
       /\ last' = "home_court" =>
             /\ cur' = cur /\ win_probs' = win_probs
             /\ [teamA' EXCEPT !["AdjO"] = 0, !["AdjD"] = 0]
                  = [teamA EXCEPT !["AdjO"] = 0, !["AdjD"] = 0]
             /\ [teamB' EXCEPT !["AdjO"] = 0, !["AdjD"] = 0]
                  = [teamB EXCEPT !["AdjO"] = 0, !["AdjD"] = 0]
             /\ IF Lower(location') \in {Home, Away}
                THEN LET up   == HcDen + HcNum
                         down == HcDen - HcNum
                         home == Lower(location') = Home
                     IN  /\ statDen' = statDen * HcDen
                         /\ teamA'["AdjO"] = teamA["AdjO"] * (IF home THEN up ELSE down)
                         /\ teamA'["AdjD"] = teamA["AdjD"] * (IF home THEN down ELSE up)
                         /\ teamB'["AdjO"] = teamB["AdjO"] * (IF home THEN down ELSE up)
                         /\ teamB'["AdjD"] = teamB["AdjD"] * (IF home THEN up ELSE down)
                ELSE teamA' = teamA /\ teamB' = teamB /\ statDen' = statDen]_vars

C8_Witness ==
  /\ steps = 2
  /\ last = "home_court"
  /\ location = <<"H","O","M","E">>
  /\ statDen = HcDen * HcDen
  /\ teamA["AdjO"] = 2 * (HcDen + HcNum) * (HcDen + HcNum)
  /\ teamB["AdjO"] = (HcDen - HcNum) * (HcDen - HcNum)
====
